---- MODULE Spec2Model ----
(***************************************************************************)
(* PeakPlay: the freshness policy and the refresh pipeline of the top-songs *)
(* API (api/index.js) and of the React hook useTracksData.                  *)
(*                                                                         *)
(* Instants are milliseconds since day 0, 00:00:00.000 UTC (Date.getTime). *)
(* Six specifications share the module:                                    *)
(*   Spec        the server handler GET /api/top-songs  (tier = "server")  *)
(*               or the hook useTracksData              (tier = "client")  *)
(*   SpecFetch   one run of fetchSongsData, batch by batch                 *)
(*   SpecPolicy  the pure date predicates of both tiers                    *)
(*   SpecStore   the cache readers on arbitrary stored payloads            *)
(*   SpecStamp   a handler run with the instants of scrape and write       *)
(*   SpecLoad    the hook, every pending API request settling              *)
(***************************************************************************)
EXTENDS Integers, Sequences, FiniteSets, TLC

VARIABLES tier,         \* which program the behaviour observes
          now,          \* the wall clock, new Date().getTime()
          redis,        \* server: the key top_songs_cache in Upstash Redis
          req,          \* server: the requests GET /api/top-songs in progress
          sent,         \* server: the response sent last
          everFetched,  \* server history: some fetchSongsData has returned
          everStored,   \* server history: a non-empty list has been stored
          localStorage, \* client: the key peakplay_top_tracks_cache
          hook,         \* client: the React state of useTracksData
          load,         \* client: the invocations of loadTracks in progress
          timer,        \* client: when the hook mounted, when checkRefreshInterval last fired
          fetch,        \* one run of fetchSongsData (SpecFetch)
          pol,          \* inputs and results of the date predicates (SpecPolicy)
          cacheFile,    \* older server: the file top_songs_cache.json (SpecStore)
          probe         \* what the store held and what the loads returned (SpecStore)

vars == <<tier, now, redis, req, sent, everFetched, everStored,
          localStorage, hook, load, timer, fetch, pol, cacheFile, probe>>

storeVars == <<cacheFile, probe>>

serverVars == <<redis, req, sent, everFetched, everStored>>
clientVars == <<localStorage, hook, load, timer>>

-----------------------------------------------------------------------------
(* Bounds of the model *)

\* days 0..MaxDay are observed
MaxDay == 2
\* the primary listing takes one of the versions 1..MaxChart
MaxChart == 2

(* Program constants *)

MsPerHour == 3600000
MsPerDay == 24 * MsPerHour
\* setUTCHours(23, 0, 0, 0)
CutoverHour == 23
\* redis.set(..., { ex: 172800 }), in seconds
RedisEx == 172800
CACHE_STALE_REFRESH_HOURS == 12
\* setInterval(..., 60 * 60 * 1000)
CheckRefreshEveryMs == 60 * 60 * 1000
\* $('#spotifydaily tbody tr').slice(0, 100)
MaxRows == 100
\* for (let i = 0; i < trackIds.length; i += 50)
BatchSize == 50
\* setTimeout(resolve, 100)
BatchDelayMs == 100

-----------------------------------------------------------------------------
(* The instants the clock visits, day by day: noon and the three instants *)
(* around the cutover; on the client also the instant that is exactly 12   *)
(* hours after "just after the cutover".                                   *)

DayOffsets(tr) ==
    {12 * MsPerHour, CutoverHour * MsPerHour - 1, CutoverHour * MsPerHour,
     CutoverHour * MsPerHour + 1}
    \cup (IF tr = "client" THEN {11 * MsPerHour + 1} ELSE {})
Instants(tr) == {d * MsPerDay + o : d \in 0..MaxDay, o \in DayOffsets(tr)}
FirstInstant(tr) == CHOOSE u \in Instants(tr) : \A w \in Instants(tr) : u <= w
LastInstant == MaxDay * MsPerDay + CutoverHour * MsPerHour + 1
NextInstant(tr, t) ==
    CHOOSE u \in Instants(tr) : u > t /\ \A w \in Instants(tr) : w > t => u <= w

Min(a, b) == IF a < b THEN a ELSE b

-----------------------------------------------------------------------------
(* JavaScript values *)

Null == [kind |-> "null"]
\* a missing property / the empty string
Empty == <<>>

\* Date.prototype.toISOString: the UTC date and the time of day, to the ms
toISOString(t) == <<t \div MsPerDay, t % MsPerDay>>
\* new Date(isoString).getTime()
getTime(iso) == iso[1] * MsPerDay + iso[2]
\* d.setUTCHours(23, 0, 0, 0): same UTC date, 23:00:00.000
setUTCHours(t) == (t \div MsPerDay) * MsPerDay + CutoverHour * MsPerHour
\* d.setUTCDate(d.getUTCDate() + k)
setUTCDate(t, k) == t + k * MsPerDay

-----------------------------------------------------------------------------
(* FreshnessPolicy, server tier (api/index.js) *)

getNext11PMUTC(t) ==
    LET next11PM == setUTCHours(t)
    IN  IF t > next11PM THEN setUTCDate(next11PM, 1) ELSE next11PM

shouldRefreshCache(cacheData, t) ==
    IF cacheData = Null \/ cacheData.cachedAt = Empty THEN TRUE
    ELSE LET cacheDate == getTime(cacheData.cachedAt)
             today11PM == setUTCHours(t)
         IN  cacheDate < today11PM /\ t > today11PM

\* mutant: an entry cached exactly at yesterday's 23:00 UTC counts as valid
isCacheValid_inclusive(cacheData, t) ==
    IF cacheData = Null \/ cacheData.cachedAt = Empty THEN FALSE
    ELSE getTime(cacheData.cachedAt) >= setUTCDate(setUTCHours(t), -1)

isCacheValid(cacheData, t) ==
    IF cacheData = Null \/ cacheData.cachedAt = Empty THEN FALSE
    ELSE LET cacheDate == getTime(cacheData.cachedAt)
             today11PM == setUTCHours(t)
             yesterday11PM == setUTCDate(today11PM, -1)
         IN  cacheDate > yesterday11PM

(* FreshnessPolicy, client tier (useTracksData.ts) *)

hook_isCacheValid(cachedAt, t) ==
    IF cachedAt = Empty THEN FALSE   \* new Date(undefined).getTime() is NaN
    ELSE LET cacheDate == getTime(cachedAt)
             today11PM == setUTCHours(t)
             yesterday11PM == setUTCDate(today11PM, -1)
         IN  cacheDate > yesterday11PM

\* mutant: no refresh of an entry older than 12 hours
hook_isCacheStale_cutoverOnly(cachedAt, t) ==
    LET cacheDate == getTime(cachedAt)
        today11PM == setUTCHours(t)
    IN  cacheDate < today11PM /\ t > today11PM

hook_isCacheStale(cachedAt, t) ==
    LET cacheDate == getTime(cachedAt)
        today11PM == setUTCHours(t)
    IN  IF cacheDate < today11PM /\ t > today11PM THEN TRUE
        ELSE (t - cacheDate) > CACHE_STALE_REFRESH_HOURS * MsPerHour

(* FreshnessPolicy as the specification words it (section 4.1) *)

CutoverInstant(t) == (t \div MsPerDay) * MsPerDay + CutoverHour * MsPerHour
IsValidSpec(t, n) == t > CutoverInstant(n) - MsPerDay
IsDueSpec(t, n) == t < CutoverInstant(n) /\ n >= CutoverInstant(n)

-----------------------------------------------------------------------------
(* SourceFetcher: fetchSongsData (api/index.js)                            *)
(*                                                                         *)
(* The primary listing is the sequence of the rows of #spotifydaily as the *)
(* selectors read them; a row's href either matches /track\/([^\/]+)\.html/ *)
(* (id > 0) or does not (id = 0). Rows of one page have distinct ids.      *)

\* which rows of a page carry a matching href
HasId(pat, i) ==
    CASE pat = "all"  -> TRUE
      [] pat = "none" -> FALSE
      [] pat = "gaps" -> i % 3 # 0

\* the page of chart version v with n rows
KworbPage(v, n, pat) ==
    [i \in 1..n |->
        [rank |-> i, change |-> "=", artist |-> <<"kworb", i>>,
         title |-> <<"title", v, i>>,
         id |-> IF HasId(pat, i) THEN i ELSE 0,
         streams |-> 1000 * v + i]]

\* trackId ? `https://open.spotify.com/track/${trackId}` : ''
TrackUrl(trackId) == IF trackId # 0 THEN <<"https://open.spotify.com/track/", trackId>> ELSE Empty
\* track.url.split('/track/')[1]  (0: undefined)
TrackIdOfUrl(url) == IF Len(url) = 2 THEN url[2] ELSE 0

\* the object pushed for one row, with the temporary artist field
ScrapeRow(row) ==
    [position |-> row.rank, positionChange |-> row.change, title |-> row.title,
     url |-> TrackUrl(row.id), dailyStreams |-> row.streams, artist |-> row.artist]

\* mutant: every row of the page is kept
ScrapeTracks_noSlice(page) == [i \in 1..Len(page) |-> ScrapeRow(page[i])]

\* $('#spotifydaily tbody tr').slice(0, 100).each(...): the tracks array
ScrapeTracks(page) == [i \in 1..Min(Len(page), MaxRows) |-> ScrapeRow(page[i])]

HasTrackId(id) == id # 0

\* trackIds: the ids of the kept rows that have one, in scrape order
ScrapeTrackIds(page) ==
    SelectSeq([i \in 1..Min(Len(page), MaxRows) |-> page[i].id], HasTrackId)

\* mutant: a batch runs one identifier into the next batch
BatchSlice_overlapping(trackIds, i) ==
    SubSeq(trackIds, i + 1, Min(i + BatchSize + 1, Len(trackIds)))

\* trackIds.slice(i, i + 50), i counted from 0
BatchSlice(trackIds, i) == SubSeq(trackIds, i + 1, Min(i + BatchSize, Len(trackIds)))

\* what the enrichment source knows about a track (an album may come without
\* images: spotifyTrack.album?.images)
SpotifyTrack(id) ==
    [id |-> id,
     artists |-> <<[name |-> <<"spotify", id>>, id |-> id,
                    external |-> IF id % 2 = 0 THEN Empty ELSE <<"ext", id>>]>>,
     images |-> IF id % 7 = 0 THEN <<>>
                ELSE <<[url |-> <<"img", id>>, width |-> 640, height |-> 0]>>]

\* the answer of spotifySDK.tracks.get(batch) that did not throw: one track or
\* null per id ("all": every id known, "odd": the even ids unknown, "none")
SpotifyResponse(kind, batch) ==
    [k \in 1..Len(batch) |->
        IF kind = "all" \/ (kind = "odd" /\ batch[k] % 2 = 1)
        THEN SpotifyTrack(batch[k]) ELSE Null]

\* tracksData.forEach(track => { if (track && track.id) spotifyData.set(...) })
StoreResponse(spotifyData, response) ==
    LET got == {k \in 1..Len(response) : response[k] # Null /\ response[k].id # 0}
        ids == {response[k].id : k \in got}
    IN  [id \in DOMAIN spotifyData \cup ids |->
            IF id \in ids THEN (CHOOSE t \in {response[k] : k \in got} : t.id = id)
            ELSE spotifyData[id]]

\* the body of the try in the batch loop: the call throws, or its answer is stored
BatchStep(spotifyData, kind, batch) ==
    IF kind = "throw" THEN spotifyData
    ELSE StoreResponse(spotifyData, SpotifyResponse(kind, batch))

RECURSIVE BatchLoop(_, _, _, _)
\* for (let i = 0; i < trackIds.length; i += 50) { ... }
BatchLoop(trackIds, kinds, i, spotifyData) ==
    IF i >= Len(trackIds) THEN spotifyData
    ELSE BatchLoop(trackIds, kinds, i + BatchSize,
                   BatchStep(spotifyData, kinds[i \div BatchSize + 1], BatchSlice(trackIds, i)))

\* artists / images of an enriched track
SpotifyArtists(spotifyTrack) ==
    [k \in 1..Len(spotifyTrack.artists) |->
        LET a == spotifyTrack.artists[k]
        IN  [name |-> a.name,
             url |-> IF a.external # Empty THEN a.external
                     ELSE <<"https://open.spotify.com/artist/", a.id>>]]
SpotifyImages(spotifyTrack) ==
    [k \in 1..Len(spotifyTrack.images) |->
        LET img == spotifyTrack.images[k]
        IN  [url |-> img.url, width |-> img.width, height |-> img.height]]

\* the else branch of the enrichment: the scraped artist, no link, no image
FallbackTrack(track) ==
    [position |-> track.position, positionChange |-> track.positionChange,
     title |-> track.title, url |-> track.url, dailyStreams |-> track.dailyStreams,
     artists |-> <<[name |-> track.artist, url |-> Empty]>>, images |-> <<>>]

EnrichedTrack(track, spotifyTrack) ==
    [position |-> track.position, positionChange |-> track.positionChange,
     title |-> track.title, url |-> track.url, dailyStreams |-> track.dailyStreams,
     artists |-> SpotifyArtists(spotifyTrack), images |-> SpotifyImages(spotifyTrack)]

\* mutant: an item without enrichment data gets no contributor at all
EnrichTrack_noContributor(track, spotifyData) ==
    LET trackId == TrackIdOfUrl(track.url)
    IN  IF trackId # 0 /\ trackId \in DOMAIN spotifyData
        THEN EnrichedTrack(track, spotifyData[trackId])
        ELSE [FallbackTrack(track) EXCEPT !.artists = <<>>]

\* the body of tracks.forEach((track, index) => { ... })
EnrichTrack(track, spotifyData) ==
    LET trackId == TrackIdOfUrl(track.url)
    IN  IF trackId # 0 /\ trackId \in DOMAIN spotifyData
        THEN EnrichedTrack(track, spotifyData[trackId])
        ELSE FallbackTrack(track)

EnrichTracks(tracks, spotifyData) ==
    [i \in 1..Len(tracks) |-> EnrichTrack(tracks[i], spotifyData)]

\* the empty Map
NoSpotifyData == [id \in {} |-> Null]

\* fetchSongsData once axios.get has answered with `page`, the k-th batch call
\* ending as kinds[k]
fetchSongsData(page, kinds) ==
    EnrichTracks(ScrapeTracks(page),
                 BatchLoop(ScrapeTrackIds(page), kinds, 0, NoSpotifyData))

-----------------------------------------------------------------------------
(* CacheStore, server tier: the key top_songs_cache in Redis *)

NoKey == [val |-> Null, exp |-> 0]

\* mutant: the key never expires
RedisGet_neverExpires(store, t) == store.val

\* redis.get('top_songs_cache') at instant t: the key is gone once its ex has elapsed
RedisGet(store, t) == IF store.val # Null /\ t < store.exp THEN store.val ELSE Null

\* redis.set('top_songs_cache', jsonString, { ex: 172800 }) at instant t
RedisSet(value, t) == [val |-> value, exp |-> t + RedisEx * 1000]

\* mutant: an entry with an empty tracks array is treated as malformed
loadFromCache_needsTracks(data) ==
    IF data = Null THEN Null
    ELSE IF data.kind # "object" THEN Null
    ELSE IF "cachedAt" \in DOMAIN data /\ data.cachedAt # Empty /\ "tracks" \in DOMAIN data
            /\ data.tracks # <<>>
         THEN data
         ELSE Null

\* what JSON.parse makes of a string that is no JSON text
SyntaxError == [kind |-> "SyntaxError"]
\* a string payload, with what JSON.parse makes of it
JsonString(parsed) == [kind |-> "string", parsed |-> parsed]

\* loadFromCache: the value, parsed if it is a string, when it is an object with
\* cachedAt and tracks, else null
loadFromCache(data) ==
    IF data = Null THEN Null
    ELSE LET parsedData == IF data.kind = "string" THEN data.parsed ELSE data
         IN  IF parsedData.kind # "object" THEN Null
             ELSE IF /\ "cachedAt" \in DOMAIN parsedData
                     /\ parsedData.cachedAt # Empty
                     /\ "tracks" \in DOMAIN parsedData
                  THEN parsedData
                  ELSE Null

\* the object saveToCache serializes
CacheData(cachedAt, tracks) == [kind |-> "object", cachedAt |-> cachedAt, tracks |-> tracks]

-----------------------------------------------------------------------------
(* RefreshOrchestrator, server tier: app.get('/api/top-songs') *)

Requests == {"r1", "r2"}

\* a request: where the handler is suspended, and what had happened when it began
IdleReq == [pc |-> "idle", afterFetched |-> FALSE, afterStored |-> FALSE]

NoneSent == [status |-> 0, body |-> <<>>, log |-> ""]

\* what axios.get and the batch calls may answer during one server fetch: a page
\* without rows or with two
ServerPages == {KworbPage(v, n, "all") : v \in 1..MaxChart, n \in {0, 2}}
ServerKinds == {<<"all">>, <<"throw">>}
\* the lists fetchSongsData may then return
ServerLists == {fetchSongsData(page, kinds) : page \in ServerPages, kinds \in ServerKinds}

\* mutant: the scheduled refresh is not consulted
ServeFromCache_validOnly(cacheData, t) ==
    cacheData # Null /\ isCacheValid(cacheData, t)

\* if (cacheData && isCacheValid(cacheData) && !needsRefresh)
ServeFromCache(cacheData, t) ==
    LET needsRefresh == shouldRefreshCache(cacheData, t)
    IN  cacheData # Null /\ isCacheValid(cacheData, t) /\ ~needsRefresh

\* return res.json(cacheData.tracks), logged 'Serving from cache'
RespondCache(cacheData) == [status |-> 200, body |-> cacheData.tracks, log |-> "cache"]

\* res.json(tracks) after saveToCache
RespondFresh(tracks) == [status |-> 200, body |-> tracks, log |-> "fresh"]

\* mutant: the catch block never falls back to the stale entry
TopSongsCatch_neverStale(cacheData) ==
    [status |-> 500, body |-> <<>>, log |-> "error"]

\* mutant: without an entry the catch block answers 200 with an empty list
TopSongsCatch_emptyOnMiss(cacheData) ==
    IF cacheData # Null /\ "tracks" \in DOMAIN cacheData
    THEN [status |-> 200, body |-> cacheData.tracks, log |-> "stale"]
    ELSE [status |-> 200, body |-> <<>>, log |-> "error"]

\* the catch block: the stale entry when there is one, else HTTP 500
TopSongsCatch(cacheData) ==
    IF cacheData # Null /\ "tracks" \in DOMAIN cacheData
    THEN [status |-> 200, body |-> cacheData.tracks, log |-> "stale"]
    ELSE [status |-> 500, body |-> <<>>, log |-> "error"]

\* process.env.API_TOKEN
API_TOKEN == "secret"

\* req.headers['authorization'] as authHeader.split(' ') sees it: null when the
\* header is absent, else its words (<<"">> for the empty header)
AuthHeaders ==
    {Null} \cup
    {[kind |-> "string", words |-> w] :
        w \in {<<"">>, <<"secret">>, <<"Bearer">>, <<"Bearer", "", "secret">>,
               <<"Bearer", "wrong">>, <<"Bearer", "secret2">>,
               <<"Bearer", "secret">>, <<"Basic", "secret">>}}

\* next() was called
AuthNext == [status |-> 0, body |-> <<>>, log |-> "next"]

\* mutant: the token is not compared with API_TOKEN
authenticateToken_anyToken(authHeader) ==
    IF authHeader = Null \/ authHeader.words = <<"">>
    THEN [status |-> 401, body |-> <<>>, log |-> "No authorization header provided"]
    ELSE LET token == IF Len(authHeader.words) >= 2 THEN authHeader.words[2] ELSE ""
         IN  IF token = ""
             THEN [status |-> 401, body |-> <<>>, log |-> "Invalid authorization header format"]
             ELSE AuthNext

\* authenticateToken: the response it sends, or next(); an undefined token and
\* an empty one are both falsy
authenticateToken(authHeader) ==
    IF authHeader = Null \/ authHeader.words = <<"">>
    THEN [status |-> 401, body |-> <<>>, log |-> "No authorization header provided"]
    ELSE LET token == IF Len(authHeader.words) >= 2 THEN authHeader.words[2] ELSE ""
         IN  IF token = ""
             THEN [status |-> 401, body |-> <<>>, log |-> "Invalid authorization header format"]
             ELSE IF token # API_TOKEN
             THEN [status |-> 403, body |-> <<>>, log |-> "Invalid or expired token"]
             ELSE AuthNext

\* the middleware answers the request with header authHeader itself
Rejected(authHeader) ==
    /\ authenticateToken(authHeader) # AuthNext
    /\ sent' = authenticateToken(authHeader)
    /\ UNCHANGED <<tier, now, redis, req, everFetched, everStored, clientVars, fetch, pol, storeVars>>

\* the answers authenticateToken gives itself
AuthResponses == {authenticateToken(authHeader) : authHeader \in AuthHeaders} \ {AuthNext}

\* a request arrives whose header authenticateToken does not let through
AuthRejects(r) ==
    /\ tier = "server"
    /\ req[r].pc = "idle"
    /\ \E response \in AuthResponses : sent' = response
    /\ UNCHANGED <<tier, now, redis, req, everFetched, everStored, clientVars, fetch, pol, storeVars>>

\* the request arrives and passes authenticateToken; await loadFromCache(); serve
\* the cache or start the fetch
TopSongsLoad(r) ==
    /\ tier = "server"
    /\ req[r].pc = "idle"
    /\ \E authHeader \in AuthHeaders : authenticateToken(authHeader) = AuthNext
    /\ LET cacheData == loadFromCache(RedisGet(redis, now))
       IN  IF ServeFromCache(cacheData, now)
           THEN /\ sent' = RespondCache(cacheData)
                /\ req' = req
           ELSE /\ req' = [req EXCEPT ![r] = [pc |-> "fetching",
                                              afterFetched |-> everFetched,
                                              afterStored |-> everStored]]
                /\ sent' = sent
    /\ UNCHANGED <<tier, now, redis, everFetched, everStored, clientVars, fetch, pol, storeVars>>

\* mutant: saveToCache overwrites the stored list item by item and is interrupted
\* after the first item
FetchStored_partialWrite(r) ==
    /\ tier = "server"
    /\ req[r].pc = "fetching"
    /\ \E tracks \in ServerLists :
          LET old == loadFromCache(RedisGet(redis, now))
              written == IF old # Null /\ Len(old.tracks) >= 2 /\ Len(tracks) >= 2
                         THEN <<tracks[1]>> \o Tail(old.tracks) ELSE tracks
          IN  /\ redis' = RedisSet(CacheData(toISOString(now), written), now)
              /\ everStored' = (everStored \/ tracks # <<>>)
              /\ sent' = RespondFresh(tracks)
    /\ everFetched' = TRUE
    /\ req' = [req EXCEPT ![r] = IdleReq]
    /\ UNCHANGED <<tier, now, clientVars, fetch, pol, storeVars>>

\* await fetchSongsData() returns; saveToCache stamps cachedAt, redis.set succeeds,
\* and the fresh list is returned
FetchStored(r) ==
    /\ tier = "server"
    /\ req[r].pc = "fetching"
    /\ \E tracks \in ServerLists :
          /\ redis' = RedisSet(CacheData(toISOString(now), tracks), now)
          /\ everStored' = (everStored \/ tracks # <<>>)
          /\ sent' = RespondFresh(tracks)
    /\ everFetched' = TRUE
    /\ req' = [req EXCEPT ![r] = IdleReq]
    /\ UNCHANGED <<tier, now, clientVars, fetch, pol, storeVars>>

\* as FetchStored, but redis.set throws: saveToCache logs the error and returns
FetchNotStored(r) ==
    /\ tier = "server"
    /\ req[r].pc = "fetching"
    /\ \E tracks \in ServerLists :
          sent' = [RespondFresh(tracks) EXCEPT !.log = "fresh, error saving to cache"]
    /\ everFetched' = TRUE
    /\ req' = [req EXCEPT ![r] = IdleReq]
    /\ UNCHANGED <<tier, now, redis, everStored, clientVars, fetch, pol, storeVars>>

\* axios.get throws: fetchSongsData rethrows and the handler enters its catch,
\* where it awaits loadFromCache() again
FetchThrows(r) ==
    /\ tier = "server"
    /\ req[r].pc = "fetching"
    /\ req' = [req EXCEPT ![r].pc = "catch"]
    /\ UNCHANGED <<tier, now, redis, sent, everFetched, everStored, clientVars, fetch, pol, storeVars>>

\* the catch block answers: the stale list or HTTP 500
CatchRespond(r) ==
    /\ tier = "server"
    /\ req[r].pc = "catch"
    /\ sent' = TopSongsCatch(loadFromCache(RedisGet(redis, now)))
    /\ req' = [req EXCEPT ![r] = IdleReq]
    /\ UNCHANGED <<tier, now, redis, everFetched, everStored, clientVars, fetch, pol, storeVars>>

ServerNext ==
    \E r \in Requests :
        \/ AuthRejects(r)
        \/ TopSongsLoad(r)
        \/ FetchStored(r)
        \/ FetchNotStored(r)
        \/ FetchThrows(r)
        \/ CatchRespond(r)

-----------------------------------------------------------------------------
(* CacheStore, client tier: localStorage (useTracksData.ts) *)

\* the CacheEntry<T> saveToCache serializes
CacheEntry(data, cachedAt) == [kind |-> "object", data |-> data, cachedAt |-> cachedAt]

\* a property the parsed object does not have
Undefined == [kind |-> "undefined"]
\* cacheEntry.cachedAt / cacheEntry.data of the parsed item
EntryCachedAt(raw) == IF "cachedAt" \in DOMAIN raw THEN raw.cachedAt ELSE Empty
EntryData(raw) == IF "data" \in DOMAIN raw THEN raw.data ELSE Undefined

\* loadFromCache: what it returns (null for an item JSON.parse throws on) ...
hook_loadFromCache(raw, t) ==
    IF raw = Null THEN Null
    ELSE IF raw.kind # "object" THEN Null
    ELSE IF ~hook_isCacheValid(EntryCachedAt(raw), t) THEN Null
    ELSE [data |-> EntryData(raw), cachedAt |-> raw.cachedAt]

\* ... and what it leaves in localStorage: an entry that is not valid is removed
hook_storageAfterLoad(raw, t) ==
    IF raw = Null THEN raw
    ELSE IF raw.kind # "object" THEN raw
    ELSE IF ~hook_isCacheValid(EntryCachedAt(raw), t) THEN Null
    ELSE raw

-----------------------------------------------------------------------------
(* The hook useTracksData *)

Loads == {"l1", "l2"}

\* loadTracks: if (cached && !shouldForceRefresh), on what localStorage holds
hook_ServeFromCache(raw, t) ==
    LET cached == hook_loadFromCache(raw, t)
        shouldForceRefresh ==
            IF cached # Null THEN hook_isCacheStale(cached.cachedAt, t) ELSE TRUE
    IN  cached # Null /\ ~shouldForceRefresh

\* the instant both refresh displays count down to
hook_nextRefresh(t) ==
    LET nextRefresh == setUTCHours(t)
    IN  IF t > nextRefresh THEN setUTCDate(nextRefresh, 1) ELSE nextRefresh

\* getTimeUntilNextRefresh: `in ${diffHours}h ${diffMinutes}m` or `in ${diffMinutes}m`
getTimeUntilNextRefresh(t) ==
    LET diffMs == hook_nextRefresh(t) - t
        diffHours == diffMs \div MsPerHour
        diffMinutes == (diffMs % MsPerHour) \div (1000 * 60)
    IN  IF diffHours > 0 THEN <<"in ", diffHours, "h ", diffMinutes, "m">>
        ELSE <<"in ", diffMinutes, "m">>

\* (x / (1000 * 60 * 60)).toFixed(1), as <<integer part, tenth>>
toFixed1(ms) ==
    LET tenths == (ms * 10 + MsPerHour \div 2) \div MsPerHour
    IN  <<tenths \div 10, tenths % 10>>

\* getNextRefreshInfo, on what localStorage holds; cacheAge is kept as the
\* number of milliseconds it divides by 1000 * 60 * 60
getNextRefreshInfo(raw, t) ==
    LET cached == hook_loadFromCache(raw, t)
        next11PM == hook_nextRefresh(t)
        timeUntilRefresh == next11PM - t
    IN  [nextRefreshTime |-> toISOString(next11PM),
         hoursUntilRefresh |-> toFixed1(timeUntilRefresh),
         cacheAge |-> IF cached # Null THEN <<t - getTime(cached.cachedAt)>> ELSE Empty,
         isCacheFresh |-> IF cached # Null THEN ~hook_isCacheStale(cached.cachedAt, t)
                          ELSE FALSE]

NoError == ""
FetchError == "Failed to fetch from API"

\* getImageByWidth(images, targetWidth): the image closest in width, the later one
\* on a tie; null for an empty list
RECURSIVE ClosestImage(_, _, _, _)
ClosestImage(images, targetWidth, k, closest) ==
    IF k > Len(images) THEN closest
    ELSE LET current == images[k]
             currentDiff == IF current.width >= targetWidth THEN current.width - targetWidth
                            ELSE targetWidth - current.width
             closestDiff == IF closest.width >= targetWidth THEN closest.width - targetWidth
                            ELSE targetWidth - closest.width
         IN  ClosestImage(images, targetWidth, k + 1,
                          IF currentDiff <= closestDiff THEN current ELSE closest)
getImageByWidth(images, targetWidth) ==
    IF Len(images) = 0 THEN Null ELSE ClosestImage(images, targetWidth, 1, images[1])

\* tracksToHeroTracks: the first three tracks as podium cards
tracksToHeroTracks(tracks) ==
    [i \in 1..Min(Len(tracks), 3) |->
        LET track == tracks[i]
            imageObj == getImageByWidth(track.images, 300)
        IN  [title |-> track.title, artists |-> track.artists, url |-> track.url,
             image |-> IF imageObj = Null THEN Empty ELSE imageObj.url,
             position |-> track.position, positionChange |-> track.positionChange]]

\* tracks.slice(3)
SliceFrom3(tracks) == SubSeq(tracks, 4, Len(tracks))

\* useState initial values
HookInit == [topTracks |-> <<>>, allTracks |-> <<>>, allTracksData |-> <<>>,
             isLoading |-> TRUE, error |-> NoError, cacheUpdatedAt |-> Empty]

\* applyTracksToState(tracks, cachedAt), on state h
applyTracksToState(h, tracks, cachedAt) ==
    [h EXCEPT !.topTracks = tracksToHeroTracks(tracks),
              !.allTracks = SliceFrom3(tracks),
              !.allTracksData = tracks,
              !.cacheUpdatedAt = cachedAt]

\* the outer catch of loadTracks
ErrorState(h, message) ==
    [h EXCEPT !.error = message, !.topTracks = <<>>, !.allTracks = <<>>,
              !.allTracksData = <<>>, !.cacheUpdatedAt = Empty]

\* what GET /api/top-songs may answer to the hook
ApiLists == {fetchSongsData(KworbPage(1, 4, "all"), <<"all">>),
             fetchSongsData(KworbPage(2, 1, "all"), <<"throw">>),
             <<>>}
\* the list an earlier visit may have left in localStorage
EarlierList == fetchSongsData(KworbPage(1, 4, "all"), <<"throw">>)

\* an invocation of loadTracks: where it is suspended, the entry it read when it
\* began, what localStorage held then, who called it ("mount": the effect,
\* "interval": checkRefreshInterval), and how it last ended ("none", "cache",
\* "fetched", "unsaved": fetched but setItem threw, "failed")
IdleLoad == [pc |-> "idle", cached |-> Null, stored |-> Null, by |-> "none", last |-> "none"]
Ended(how) == [IdleLoad EXCEPT !.last = how]

\* loadTracks() up to its first await: loading state, loadFromCache, then either
\* the cached list is shown or fetchTopTracksFromApi() is awaited
LoadTracks(l, raw, caller) ==
    LET cached == hook_loadFromCache(raw, now)
        shouldForceRefresh ==
            IF cached # Null THEN hook_isCacheStale(cached.cachedAt, now) ELSE TRUE
        loading == [hook EXCEPT !.isLoading = TRUE, !.error = NoError]
    IN  /\ localStorage' = hook_storageAfterLoad(raw, now)
        /\ IF cached # Null /\ ~shouldForceRefresh
           THEN /\ hook' = [applyTracksToState(loading, cached.data, cached.cachedAt)
                               EXCEPT !.isLoading = FALSE]
                /\ load' = [load EXCEPT ![l] = Ended("cache")]
           ELSE /\ hook' = loading
                /\ load' = [load EXCEPT ![l] = [pc |-> "fetching", cached |-> cached,
                                                stored |-> raw, by |-> caller,
                                                last |-> "none"]]

\* the effect runs once the hook is mounted: loadTracks(), then the intervals are set
Mount(l) ==
    /\ tier = "client"
    /\ timer.mountedAt < 0
    /\ load[l].pc = "idle"
    /\ LoadTracks(l, localStorage, "mount")
    /\ timer' = [mountedAt |-> now, firedAt |-> now]
    /\ UNCHANGED <<tier, now, serverVars, fetch, pol, storeVars>>

\* setInterval(..., 60 * 60 * 1000) fires at this instant
CheckRefreshFires ==
    /\ timer.mountedAt >= 0
    /\ now > timer.mountedAt
    /\ (now - timer.mountedAt) % CheckRefreshEveryMs = 0
    /\ timer.firedAt # now

\* checkRefreshInterval: loadFromCache, and loadTracks() when the entry is stale
CheckRefreshInterval(l) ==
    /\ tier = "client"
    /\ CheckRefreshFires
    /\ load[l].pc = "idle"
    /\ LET cached == hook_loadFromCache(localStorage, now)
           after == hook_storageAfterLoad(localStorage, now)
       IN  IF cached # Null /\ hook_isCacheStale(cached.cachedAt, now)
           THEN LoadTracks(l, after, "interval")
           ELSE /\ localStorage' = after
                /\ UNCHANGED <<hook, load>>
    /\ timer' = [timer EXCEPT !.firedAt = now]
    /\ UNCHANGED <<tier, now, serverVars, fetch, pol, storeVars>>

\* fetchTopTracksFromApi() resolves: saveToCache, the fresh list is shown
ApiReturns(l) ==
    /\ tier = "client"
    /\ load[l].pc = "fetching"
    /\ \E freshTracks \in ApiLists :
          /\ localStorage' = CacheEntry(freshTracks, toISOString(now))
          /\ hook' = [applyTracksToState(hook, freshTracks, toISOString(now))
                         EXCEPT !.isLoading = FALSE]
    /\ load' = [load EXCEPT ![l] = Ended("fetched")]
    /\ UNCHANGED <<tier, now, timer, serverVars, fetch, pol, storeVars>>

\* mutant: the error of localStorage.setItem reaches the outer catch of loadTracks
ApiReturnsUnsaved_propagates(l) ==
    /\ tier = "client"
    /\ load[l].pc = "fetching"
    /\ hook' = [ErrorState(hook, FetchError) EXCEPT !.isLoading = FALSE]
    /\ load' = [load EXCEPT ![l] = Ended("unsaved")]
    /\ UNCHANGED <<tier, now, localStorage, timer, serverVars, fetch, pol, storeVars>>

\* as ApiReturns, but localStorage.setItem throws, which saveToCache swallows
ApiReturnsUnsaved(l) ==
    /\ tier = "client"
    /\ load[l].pc = "fetching"
    /\ \E freshTracks \in ApiLists :
          hook' = [applyTracksToState(hook, freshTracks, toISOString(now))
                      EXCEPT !.isLoading = FALSE]
    /\ load' = [load EXCEPT ![l] = Ended("unsaved")]
    /\ UNCHANGED <<tier, now, localStorage, timer, serverVars, fetch, pol, storeVars>>

\* the inner catch: the list read when loadTracks began, if any, else the error
LoadTracksCatch(h, cached) ==
    IF cached # Null
    THEN applyTracksToState(h, cached.data, cached.cachedAt)
    ELSE ErrorState(h, FetchError)

\* mutant: loadTracks has no finally block on the failure path
ApiThrows_staysLoading(l) ==
    /\ tier = "client"
    /\ load[l].pc = "fetching"
    /\ hook' = LoadTracksCatch(hook, load[l].cached)
    /\ load' = [load EXCEPT ![l] = Ended("failed")]
    /\ UNCHANGED <<tier, now, localStorage, timer, serverVars, fetch, pol, storeVars>>

\* fetchTopTracksFromApi() rejects
ApiThrows(l) ==
    /\ tier = "client"
    /\ load[l].pc = "fetching"
    /\ hook' = [LoadTracksCatch(hook, load[l].cached) EXCEPT !.isLoading = FALSE]
    /\ load' = [load EXCEPT ![l] = Ended("failed")]
    /\ UNCHANGED <<tier, now, localStorage, timer, serverVars, fetch, pol, storeVars>>

ClientNext ==
    \E l \in Loads :
        \/ Mount(l)
        \/ CheckRefreshInterval(l)
        \/ ApiReturns(l)
        \/ ApiReturnsUnsaved(l)
        \/ ApiThrows(l)

-----------------------------------------------------------------------------
(* The clock, initial states, specification *)

\* time passes
Tick ==
    /\ tier \in {"server", "client"}
    /\ now < LastInstant
    /\ now' = NextInstant(tier, now)
    /\ UNCHANGED <<tier, serverVars, clientVars, fetch, pol, storeVars>>

NoFetch == [pc |-> "off"]
NoPol == [pc |-> "off"]
NoFile == [kind |-> "null"]
NoProbe == [payload |-> Null, results |-> <<>>]

ServerInitVars ==
    /\ redis = NoKey
    /\ req = [r \in Requests |-> IdleReq]
    /\ sent = NoneSent
    /\ everFetched = FALSE
    /\ everStored = FALSE

ClientInitVars ==
    /\ hook = HookInit
    /\ load = [l \in Loads |-> IdleLoad]
    /\ timer = [mountedAt |-> -1, firedAt |-> -1]

\* the server starts with an empty store
InitServer ==
    /\ tier = "server"
    /\ now = FirstInstant(tier)
    /\ ServerInitVars
    /\ ClientInitVars
    /\ localStorage = Null

\* the page is opened at some instant; localStorage is empty or holds the entry an
\* earlier visit saved
InitClient ==
    /\ tier = "client"
    /\ now \in Instants(tier)
    /\ ServerInitVars
    /\ ClientInitVars
    /\ localStorage \in {Null} \cup
          {CacheEntry(EarlierList, toISOString(c)) : c \in {u \in Instants(tier) : u <= now}}

Init ==
    /\ InitServer \/ InitClient
    /\ fetch = NoFetch
    /\ pol = NoPol
    /\ cacheFile = NoFile
    /\ probe = NoProbe

Next == ServerNext \/ ClientNext \/ Tick

Spec == Init /\ [][Next]_vars

-----------------------------------------------------------------------------
(* SpecFetch: one run of fetchSongsData, one step per await *)

\* rows past the first 100 that a page may have
MaxExtraRows == 1

ScrapeSizes == {0, 1, BatchSize, BatchSize + 1, MaxRows, MaxRows + MaxExtraRows}
FetchPages == {KworbPage(1, n, pat) : n \in ScrapeSizes, pat \in {"all", "none", "gaps"}}
\* how the k-th batch call ends
FetchKinds == [1..(MaxRows \div BatchSize) -> {"all", "odd", "throw"}]

\* axios.get answers: the rows are scraped and the ids collected
AxiosReturns ==
    /\ tier = "fetch"
    /\ fetch.pc = "start"
    /\ fetch' = [fetch EXCEPT !.pc = "loop",
                              !.tracks = ScrapeTracks(fetch.page),
                              !.trackIds = ScrapeTrackIds(fetch.page)]
    /\ UNCHANGED <<tier, now, serverVars, clientVars, pol, storeVars>>

\* axios.get throws: the outer catch rethrows
AxiosThrows ==
    /\ tier = "fetch"
    /\ fetch.pc = "start"
    /\ fetch' = [fetch EXCEPT !.pc = "thrown"]
    /\ UNCHANGED <<tier, now, serverVars, clientVars, pol, storeVars>>

\* the batch call of this iteration is answered: the answer is stored, and the
\* delay is awaited when another batch follows
BatchAnswers ==
    /\ tier = "fetch"
    /\ fetch.pc = "loop"
    /\ fetch.i < Len(fetch.trackIds)
    /\ LET batch == BatchSlice(fetch.trackIds, fetch.i)
           kind == fetch.kinds[fetch.i \div BatchSize + 1]
       IN  /\ kind # "throw"
           /\ fetch' = [fetch EXCEPT
                  !.calls = Append(@, [ids |-> batch, threw |-> FALSE, at |-> fetch.elapsed]),
                  !.spotifyData = BatchStep(@, kind, batch),
                  !.elapsed = IF fetch.i + BatchSize < Len(fetch.trackIds)
                              THEN @ + BatchDelayMs ELSE @,
                  !.i = @ + BatchSize]
    /\ UNCHANGED <<tier, now, serverVars, clientVars, pol, storeVars>>

\* mutant: a batch error is not caught and ends the fetch
BatchThrows_escalates ==
    /\ tier = "fetch"
    /\ fetch.pc = "loop"
    /\ fetch.i < Len(fetch.trackIds)
    /\ LET batch == BatchSlice(fetch.trackIds, fetch.i)
           kind == fetch.kinds[fetch.i \div BatchSize + 1]
       IN  /\ kind = "throw"
           /\ fetch' = [fetch EXCEPT
                  !.calls = Append(@, [ids |-> batch, threw |-> TRUE, at |-> fetch.elapsed]),
                  !.pc = "thrown"]
    /\ UNCHANGED <<tier, now, serverVars, clientVars, pol, storeVars>>

\* the batch call of this iteration throws: the error is logged and the loop goes on
BatchThrows ==
    /\ tier = "fetch"
    /\ fetch.pc = "loop"
    /\ fetch.i < Len(fetch.trackIds)
    /\ LET batch == BatchSlice(fetch.trackIds, fetch.i)
           kind == fetch.kinds[fetch.i \div BatchSize + 1]
       IN  /\ kind = "throw"
           /\ fetch' = [fetch EXCEPT
                  !.calls = Append(@, [ids |-> batch, threw |-> TRUE, at |-> fetch.elapsed]),
                  !.spotifyData = BatchStep(@, kind, batch),
                  !.i = @ + BatchSize]
    /\ UNCHANGED <<tier, now, serverVars, clientVars, pol, storeVars>>

\* the loop is over: every track is enriched or falls back, and the list is returned
EnrichAndReturn ==
    /\ tier = "fetch"
    /\ fetch.pc = "loop"
    /\ fetch.i >= Len(fetch.trackIds)
    /\ fetch' = [fetch EXCEPT !.pc = "returned",
                              !.result = EnrichTracks(fetch.tracks, fetch.spotifyData)]
    /\ UNCHANGED <<tier, now, serverVars, clientVars, pol, storeVars>>

InitFetch ==
    /\ tier = "fetch"
    /\ now = 0
    /\ cacheFile = NoFile
    /\ probe = NoProbe
    /\ ServerInitVars
    /\ ClientInitVars
    /\ localStorage = Null
    /\ pol = NoPol
    /\ \E page \in FetchPages, kinds \in FetchKinds :
          fetch = [pc |-> "start", page |-> page, kinds |-> kinds, tracks |-> <<>>,
                   trackIds |-> <<>>, i |-> 0, spotifyData |-> NoSpotifyData,
                   calls |-> <<>>, elapsed |-> 0, result |-> <<>>]

NextFetch ==
    \/ AxiosReturns
    \/ AxiosThrows
    \/ BatchAnswers
    \/ BatchThrows
    \/ EnrichAndReturn

SpecFetch == InitFetch /\ [][NextFetch]_vars

-----------------------------------------------------------------------------
(* SpecPolicy: the date predicates of both tiers, applied to an entry and an *)
(* instant                                                                  *)

PolicyInstants ==
    Instants("client") \cup {d * MsPerDay : d \in 0..MaxDay}
                       \cup {d * MsPerDay + MsPerDay - 1 : d \in 0..MaxDay}

\* absent, without timestamp, or cached at some instant
PolicyEntries ==
    {Null, CacheData(Empty, <<>>)} \cup {CacheData(toISOString(t), <<>>) : t \in PolicyInstants}

Stamped(entry) == entry # Null /\ entry.cachedAt # Empty

\* the same entry as the hook's saveToCache would have written it
PolicyRaw(entry) == IF entry = Null THEN Null ELSE CacheEntry(entry.tracks, entry.cachedAt)

\* the predicates are evaluated on the entry at the instant
EvaluatePolicy ==
    /\ tier = "policy"
    /\ pol.pc = "in"
    /\ pol' = [pol EXCEPT
          !.pc = "out",
          !.isCacheValid = isCacheValid(pol.entry, pol.at),
          !.shouldRefreshCache = shouldRefreshCache(pol.entry, pol.at),
          !.hookValid = IF pol.entry = Null THEN FALSE
                        ELSE hook_isCacheValid(pol.entry.cachedAt, pol.at),
          !.hookStale = IF Stamped(pol.entry)
                        THEN hook_isCacheStale(pol.entry.cachedAt, pol.at) ELSE TRUE,
          !.next11PM = getNext11PMUTC(pol.at),
          !.timeUntil = getTimeUntilNextRefresh(pol.at),
          !.refreshInfo = getNextRefreshInfo(PolicyRaw(pol.entry), pol.at),
          !.serverServes = ServeFromCache(pol.entry, pol.at),
          !.hookServes = hook_ServeFromCache(PolicyRaw(pol.entry), pol.at)]
    /\ UNCHANGED <<tier, now, serverVars, clientVars, fetch, storeVars>>

InitPolicy ==
    /\ tier = "policy"
    /\ now = 0
    /\ cacheFile = NoFile
    /\ probe = NoProbe
    /\ ServerInitVars
    /\ ClientInitVars
    /\ localStorage = Null
    /\ fetch = NoFetch
    /\ \E entry \in PolicyEntries, at \in PolicyInstants :
          pol = [pc |-> "in", entry |-> entry, at |-> at, isCacheValid |-> FALSE,
                 shouldRefreshCache |-> FALSE, hookValid |-> FALSE, hookStale |-> FALSE,
                 next11PM |-> 0, timeUntil |-> <<>>, refreshInfo |-> Null,
                 serverServes |-> FALSE, hookServes |-> FALSE]

NextPolicy == EvaluatePolicy

SpecPolicy == InitPolicy /\ [][NextPolicy]_vars

-----------------------------------------------------------------------------
(* The older server (src/unnamed/part_000): cache file and status endpoint *)

\* loadFromCache of the older server: JSON.parse of the file if it exists, null
\* if it does not or if reading or parsing throws
file_loadFromCache(file) ==
    IF file = Null THEN Null
    ELSE IF file.kind = "string" THEN (IF file.parsed = SyntaxError THEN Null ELSE file.parsed)
    ELSE file

\* (ms / (1000 * 60 * 60)).toFixed(2), as <<integer part, hundredths>>
toFixed2(ms) ==
    LET hundredths == (ms + MsPerHour \div 200) \div (MsPerHour \div 100)
    IN  <<hundredths \div 100, hundredths % 100>>

\* the body GET /api/cache-status answers with
cacheStatus(cacheData, t) ==
    IF cacheData = Null
    THEN [hasCache |-> FALSE, message |-> "No cache available"]
    ELSE LET cachedAt == IF "cachedAt" \in DOMAIN cacheData THEN cacheData.cachedAt ELSE Empty
             read == [kind |-> "object", cachedAt |-> cachedAt]
         IN  [hasCache |-> TRUE,
              cachedAt |-> cachedAt,
              ageInHours |-> IF cachedAt = Empty THEN <<"NaN">> ELSE toFixed2(t - getTime(cachedAt)),
              isValid |-> isCacheValid(read, t),
              tracksCount |-> IF "tracks" \in DOMAIN cacheData THEN Len(cacheData.tracks) ELSE 0,
              refreshNeeded |-> shouldRefreshCache(read, t)]

-----------------------------------------------------------------------------
(* SpecStore: loadFromCache of each tier applied to what the store may hold, *)
(* and the status endpoint                                                  *)

\* loads of one payload in a row
MaxLoads == 2

StoreTiers == {"redis", "localStorage", "file"}

\* the list an entry of the store carries
StoreList == fetchSongsData(KworbPage(1, 1, "all"), <<"all">>)

\* what the store of a tier may hold at instant t besides nothing: an entry the
\* tier wrote earlier, an entry with an empty list, an object without timestamp,
\* an object without list, a string that is no JSON text, a JSON text that is
\* no object
Payloads(tr, t) ==
    LET stamps == {toISOString(c) : c \in {u \in PolicyInstants : u <= t}}
    IN  IF tr = "localStorage"
        THEN {CacheEntry(list, c) : list \in {StoreList, <<>>}, c \in stamps}
             \cup {[kind |-> "object", data |-> StoreList, cachedAt |-> Empty]}
             \cup {[kind |-> "object", cachedAt |-> c] : c \in stamps}
             \cup {JsonString(SyntaxError), JsonString(Null)}
        ELSE {CacheData(c, list) : list \in {StoreList, <<>>}, c \in stamps}
             \cup {CacheData(Empty, StoreList)}
             \cup {[kind |-> "object", cachedAt |-> c] : c \in stamps}
             \cup {JsonString(SyntaxError), JsonString([kind |-> "number"])}
             \cup {JsonString(CacheData(c, StoreList)) : c \in stamps}

\* await loadFromCache() on the server
RedisLoadFromCache ==
    /\ tier = "redis"
    /\ Len(probe.results) < MaxLoads
    /\ probe' = [probe EXCEPT !.results = Append(@, loadFromCache(RedisGet(redis, now)))]
    /\ UNCHANGED <<tier, now, serverVars, clientVars, fetch, pol, cacheFile>>

\* loadFromCache(TOP_TRACKS_CACHE_KEY) in the hook
HookLoadFromCache ==
    /\ tier = "localStorage"
    /\ Len(probe.results) < MaxLoads
    /\ probe' = [probe EXCEPT !.results = Append(@, hook_loadFromCache(localStorage, now))]
    /\ localStorage' = hook_storageAfterLoad(localStorage, now)
    /\ UNCHANGED <<tier, now, serverVars, hook, load, timer, fetch, pol, cacheFile>>

\* loadFromCache() on the older server
FileLoadFromCache ==
    /\ tier = "file"
    /\ Len(probe.results) < MaxLoads
    /\ probe' = [probe EXCEPT !.results = Append(@, file_loadFromCache(cacheFile))]
    /\ UNCHANGED <<tier, now, serverVars, clientVars, fetch, pol, cacheFile>>

\* GET /api/cache-status on the older server
CacheStatus ==
    /\ tier = "file"
    /\ sent' = [status |-> 200, body |-> cacheStatus(file_loadFromCache(cacheFile), now),
                log |-> "cache-status"]
    /\ UNCHANGED <<tier, now, redis, req, everFetched, everStored, clientVars, fetch, pol,
                   storeVars>>

\* GET /api/cache-status on the current server, which lists the route at / but
\* registers no handler for it
CacheStatusNotRouted ==
    /\ tier = "redis"
    /\ sent' = [status |-> 404, body |-> <<>>, log |-> "cache-status"]
    /\ UNCHANGED <<tier, now, redis, req, everFetched, everStored, clientVars, fetch, pol,
                   storeVars>>

InitStore ==
    /\ tier \in StoreTiers
    /\ now \in PolicyInstants
    /\ req = [r \in Requests |-> IdleReq]
    /\ sent = NoneSent
    /\ everFetched = FALSE
    /\ everStored = FALSE
    /\ ClientInitVars
    /\ fetch = NoFetch
    /\ pol = NoPol
    /\ \E payload \in {Null} \cup Payloads(tier, now) :
          /\ probe = [payload |-> payload, results |-> <<>>]
          /\ redis = IF tier = "redis" /\ payload # Null THEN RedisSet(payload, now) ELSE NoKey
          /\ localStorage = IF tier = "localStorage" THEN payload ELSE Null
          /\ cacheFile = IF tier = "file" THEN payload ELSE NoFile

NextStore ==
    \/ RedisLoadFromCache
    \/ HookLoadFromCache
    \/ FileLoadFromCache
    \/ CacheStatus
    \/ CacheStatusNotRouted

SpecStore == InitStore /\ [][NextStore]_vars

-----------------------------------------------------------------------------
(* Steps of the server handler, as the claims speak of them *)

\* request r starts a fetch in this step
StartsFetch(r) == req[r].pc = "idle" /\ req'[r].pc = "fetching"
\* the fetch of request r fails in this step
FetchFails(r) == req[r].pc = "fetching" /\ req'[r].pc = "catch"
\* request r, suspended in its fetch or in its catch block, answers in this step
Answers(r) == req[r].pc # "idle" /\ req'[r].pc = "idle"
\* a request is answered from the cache in this step, without a fetch
AnswersFromCache == tier = "server" /\ req' = req /\ sent' # sent /\ sent'.log = "cache"

\* the entry in the store now
StoredEntry == RedisGet(redis, now)

\* shouldServeCache of the specification, on the entry in the store
ShouldServeCacheSpec ==
    /\ StoredEntry # Null
    /\ IsValidSpec(getTime(StoredEntry.cachedAt), now)
    /\ ~IsDueSpec(getTime(StoredEntry.cachedAt), now)

\* C1: a server read returns the stored entry's list without fetching if and only
\* if the entry is present, valid and not due (isDue as the specification defines
\* it, true from the cutover instant on); otherwise it starts a fetch.
C1_ServesCacheIffValidNotDue ==
    [][/\ AnswersFromCache => (ShouldServeCacheSpec /\ sent'.body = StoredEntry.tracks)
       /\ \A r \in Requests : StartsFetch(r) => ~ShouldServeCacheSpec]_vars

LoadFetchFails(l) ==
    load[l].pc = "fetching" /\ load'[l].pc = "idle" /\ load'[l].last = "failed"
\* the fetch of invocation l of loadTracks succeeds in this step
LoadFetchSucceeds(l) ==
    /\ load[l].pc = "fetching"
    /\ load'[l].pc = "idle"
    /\ load'[l].last \in {"fetched", "unsaved"}

\* C3: when the fetch has failed and there is no entry in the store, the read
\* fails and carries no track data: the server answers HTTP 500 with an error
\* body, the hook ends in its error state with empty lists.
C3_FailsWithoutEntry ==
    [][/\ \A r \in Requests :
            (req[r].pc = "catch" /\ Answers(r) /\ StoredEntry = Null)
               => (sent'.status = 500 /\ sent'.body = <<>>)
       /\ \A l \in Loads :
            (LoadFetchFails(l) /\ load[l].cached = Null /\ localStorage = Null)
               => /\ hook'.error # NoError
                  /\ hook'.topTracks = <<>>
                  /\ hook'.allTracks = <<>>
                  /\ hook'.allTracksData = <<>>
                  /\ ~hook'.isLoading]_vars

\* C3 witness: the hook in its error state after a failed fetch without an entry,
\* and nothing to show
C3_Witness ==
    /\ tier = "client"
    /\ \E l \in Loads : load[l].last = "failed"
    /\ localStorage = Null
    /\ hook.error = FetchError
    /\ hook.allTracksData = <<>>
    /\ ~hook.isLoading

\* C3 witness on the server: HTTP 500 sent while the store is empty
C3_WitnessServer ==
    tier = "server" /\ sent.status = 500 /\ sent.log = "error" /\ StoredEntry = Null

C5_OneFetchInFlight ==
    tier = "server" => Cardinality({r \in Requests : req[r].pc = "fetching"}) <= 1

\* C9: once a non-empty list has been stored, no later read returns an empty list.
C9_NoEmptyAnswerAfterStore ==
    [][/\ \A r \in Requests :
            (Answers(r) /\ req[r].afterStored /\ sent'.status = 200) => sent'.body # <<>>
       /\ (AnswersFromCache /\ everStored) => sent'.body # <<>>]_vars

\* C10: on both tiers the stored entry changes only when a read writes the list
\* of its successful fetch; no other step, in particular none of a read whose
\* fetch fails, deletes or rewrites it.
C10_StoreChangesOnlyOnFetchSuccess ==
    [][/\ redis' # redis =>
            \E r \in Requests : req[r].pc = "fetching" /\ Answers(r) /\ sent'.log = "fresh"
       /\ localStorage' # localStorage => \E l \in Loads : LoadFetchSucceeds(l)]_vars

-----------------------------------------------------------------------------
(* Claims about fetchSongsData (SpecFetch) *)

\* the rows the scrape keeps
KeptRows == SubSeq(fetch.page, 1, Min(Len(fetch.page), MaxRows))
\* the batch calls that carried id
CallsWith(id) == {k \in 1..Len(fetch.calls) : \E j \in 1..Len(fetch.calls[k].ids) :
                                                fetch.calls[k].ids[j] = id}
\* the enrichment source returned data for id in an answered call
Answered(id) ==
    \E k \in CallsWith(id) :
        /\ ~fetch.calls[k].threw
        /\ (fetch.kinds[k] = "all" \/ (fetch.kinds[k] = "odd" /\ id % 2 = 1))

\* C6: an enrichment batch call that throws never fails the fetch; the fetch
\* returns one item per scraped row, the items of a batch whose call threw carry
\* the scraped artist name with an empty link and no image, and the items the
\* answered calls returned data for carry the artists and images of that data.
C6_BatchFailureIsIsolated ==
    /\ fetch.pc = "thrown" => fetch.calls = <<>>
    /\ fetch.pc = "returned" =>
          /\ Len(fetch.result) = Len(KeptRows)
          /\ \A i \in 1..Len(KeptRows) :
                LET row == KeptRows[i]
                    item == fetch.result[i]
                IN  /\ item.title = row.title
                    /\ (\E k \in CallsWith(row.id) : fetch.calls[k].threw)
                          => /\ item.artists = <<[name |-> row.artist, url |-> Empty]>>
                             /\ item.images = <<>>
                    /\ Answered(row.id)
                          => /\ item.artists = SpotifyArtists(SpotifyTrack(row.id))
                             /\ item.images = SpotifyImages(SpotifyTrack(row.id))

\* C6 witness: a fetch of 100 rows has returned after its first batch call threw
\* and its second was answered
C6_Witness ==
    /\ fetch.pc = "returned"
    /\ Len(fetch.result) = MaxRows
    /\ Len(fetch.calls) = 2
    /\ fetch.calls[1].threw
    /\ ~fetch.calls[2].threw
    /\ fetch.result[1].images = <<>>
    /\ fetch.result[MaxRows].images # <<>>

-----------------------------------------------------------------------------
(* Claims about the date predicates (SpecPolicy) *)

\* C7: isCacheValid, on the server and in the hook, is true exactly when the entry
\* was cached after CutoverInstant(now) - 1 day; an absent entry and an entry
\* without timestamp are never valid.
C7_IsValidIffAfterYesterdaysCutover ==
    pol.pc = "out" =>
        IF Stamped(pol.entry)
        THEN /\ pol.isCacheValid = IsValidSpec(getTime(pol.entry.cachedAt), pol.at)
             /\ pol.hookValid = IsValidSpec(getTime(pol.entry.cachedAt), pol.at)
        ELSE ~pol.isCacheValid /\ ~pol.hookValid

\* C7 witness: an entry cached one millisecond after yesterday's cutover is valid
C7_Witness ==
    /\ pol.pc = "out"
    /\ Stamped(pol.entry)
    /\ getTime(pol.entry.cachedAt) = CutoverInstant(pol.at) - MsPerDay + 1
    /\ pol.isCacheValid
    /\ pol.hookValid

\* C8: shouldRefreshCache is true exactly when the entry was cached before
\* CutoverInstant(now) and now >= CutoverInstant(now), the cutover instant included.
C8_IsDueFromTheCutoverInstantOn ==
    (pol.pc = "out" /\ Stamped(pol.entry)) =>
        pol.shouldRefreshCache = IsDueSpec(getTime(pol.entry.cachedAt), pol.at)

-----------------------------------------------------------------------------
(* Claims about the hook's fallback and about failed cache writes (Spec) *)

\* C11: when the API fetch of a load fails and localStorage held an entry when the
\* load began, valid or not, the hook shows that entry's data and sets no error;
\* the error state is reached only when no entry existed.
C11_HookFallsBackToAnyStoredEntry ==
    [][\A l \in Loads :
          LoadFetchFails(l) =>
              IF load[l].stored # Null
              THEN /\ hook'.allTracksData = load[l].stored.data
                   /\ hook'.error = NoError
              ELSE hook'.error # NoError]_vars

\* C12: when the cache write of a refresh throws, the read still succeeds with
\* the freshly fetched list: the server answers 200 with the list it fetched and
\* leaves the store as it was, the hook shows the list the API returned, without
\* error and no longer loading.
C12_FailedWriteDoesNotFailTheRead ==
    [][/\ \A r \in Requests :
            (req[r].pc = "fetching" /\ Answers(r)
                 /\ sent'.log = "fresh, error saving to cache")
               => /\ sent'.status = 200
                  /\ sent'.body \in ServerLists
                  /\ redis' = redis
       /\ \A l \in Loads :
            (load[l].pc = "fetching" /\ load'[l].last = "unsaved")
               => /\ hook'.allTracksData \in ApiLists
                  /\ hook'.topTracks = tracksToHeroTracks(hook'.allTracksData)
                  /\ hook'.error = NoError
                  /\ ~hook'.isLoading
                  /\ localStorage' = localStorage]_vars

\* C12 witness: the hook shows a fetched list that localStorage does not hold
C12_Witness ==
    /\ tier = "client"
    /\ \E l \in Loads : load[l].last = "unsaved"
    /\ hook.allTracksData # <<>>
    /\ hook.error = NoError
    /\ ~hook.isLoading
    /\ (localStorage = Null \/ localStorage.data # hook.allTracksData)

\* C12 witness on the server: a fresh list was sent though the store is empty
C12_WitnessServer ==
    /\ tier = "server"
    /\ sent.status = 200
    /\ sent.log = "fresh, error saving to cache"
    /\ sent.body # <<>>
    /\ redis = NoKey

-----------------------------------------------------------------------------
(* Claims about the order of the returned list (SpecFetch) *)

\* C13: a fetch that returns gives exactly one item per scraped row, at most 100,
\* in scrape order: the i-th item carries the rank, title and link of the i-th
\* row of the page, enriched or not.
C13_OneItemPerRowInScrapeOrder ==
    fetch.pc = "returned" =>
        /\ Len(fetch.result) = Min(Len(fetch.page), MaxRows)
        /\ Len(fetch.result) <= MaxRows
        /\ \A i \in 1..Len(fetch.result) :
              LET row == fetch.page[i]
                  item == fetch.result[i]
              IN  /\ item.position = row.rank
                  /\ item.title = row.title
                  /\ item.url = IF row.id # 0
                                THEN <<"https://open.spotify.com/track/", row.id>>
                                ELSE Empty

\* C13 witness: a page of more than 100 rows, some without link, gave 100 items,
\* with an enriched item, an item of a batch that threw and an item without id
C13_Witness ==
    /\ fetch.pc = "returned"
    /\ Len(fetch.page) > MaxRows
    /\ Len(fetch.result) = MaxRows
    /\ \E k \in 1..Len(fetch.calls) : fetch.calls[k].threw
    /\ \E i \in 1..MaxRows : fetch.result[i].images # <<>>
    /\ \E i \in 1..MaxRows : fetch.result[i].url = Empty

-----------------------------------------------------------------------------
(* Claims about authentication (Spec) *)

\* GET /api/top-songs arrives as request r with Authorization header authHeader
TopSongsRoute(r, authHeader) ==
    /\ tier = "server"
    /\ req[r].pc = "idle"
    /\ IF authenticateToken(authHeader) = AuthNext THEN TopSongsLoad(r)
       ELSE Rejected(authHeader)

\* the header carries the configured secret as its token
CarriesSecret(authHeader) ==
    /\ authHeader # Null
    /\ Len(authHeader.words) >= 2
    /\ authHeader.words[2] = API_TOKEN

\* C14: a request whose Authorization header is missing or does not carry the
\* configured secret is answered 401 or 403 without track data, and its step
\* starts no fetch and leaves the store as it was.
C14_RejectedBeforeTheReadPath ==
    [][\A r \in Requests, authHeader \in AuthHeaders :
          (~CarriesSecret(authHeader) /\ TopSongsRoute(r, authHeader))
             => /\ sent'.status \in {401, 403}
                /\ sent'.body = <<>>
                /\ redis' = redis
                /\ req' = req]_vars

\* C14 witness: a request was refused with 403 while the store holds a list
C14_Witness ==
    /\ tier = "server"
    /\ sent.status = 403
    /\ sent.body = <<>>
    /\ StoredEntry # Null
    /\ StoredEntry.tracks # <<>>

-----------------------------------------------------------------------------
(* Claims about the next cutover and about the two tiers' policies (SpecPolicy) *)

\* today's 23:00 UTC if now is strictly before it, otherwise tomorrow's
NextCutoverSpec(n) ==
    IF n < CutoverInstant(n) THEN CutoverInstant(n) ELSE CutoverInstant(n) + MsPerDay

\* a duration in whole hours and minutes, as the hook displays it
UntilText(ms) ==
    IF ms >= MsPerHour
    THEN <<"in ", ms \div MsPerHour, "h ", (ms % MsPerHour) \div 60000, "m">>
    ELSE <<"in ", ms \div 60000, "m">>

\* C15: getNext11PMUTC, getTimeUntilNextRefresh and getNextRefreshInfo all take as
\* next cutover today's 23:00 UTC if now is strictly before it and tomorrow's
\* otherwise, so that instant is always strictly later than now.
C15_NextCutoverIsStrictlyLater ==
    pol.pc = "out" =>
        /\ pol.next11PM = NextCutoverSpec(pol.at)
        /\ pol.next11PM > pol.at
        /\ getTime(pol.refreshInfo.nextRefreshTime) = NextCutoverSpec(pol.at)
        /\ pol.refreshInfo.hoursUntilRefresh = toFixed1(NextCutoverSpec(pol.at) - pol.at)
        /\ pol.timeUntil = UntilText(NextCutoverSpec(pol.at) - pol.at)

\* C16 (as claimed): for every entry timestamp and instant the hook and the server
\* decide alike between serving the entry from the cache and refreshing.
C16_TiersDecideAlike ==
    (pol.pc = "out" /\ Stamped(pol.entry)) => pol.hookServes = pol.serverServes

\* C16 (amended): the hook serves the entry from the cache exactly when the server
\* would and the entry is at most 12 hours old.
C16_TiersAgreeUpTo12Hours ==
    (pol.pc = "out" /\ Stamped(pol.entry)) =>
        pol.hookServes =
            (/\ pol.serverServes
             /\ pol.at - getTime(pol.entry.cachedAt) <= CACHE_STALE_REFRESH_HOURS * MsPerHour)

\* C16 witness: an entry more than 12 hours old that the server serves and the
\* hook refreshes
C16_Witness ==
    /\ pol.pc = "out"
    /\ Stamped(pol.entry)
    /\ pol.at - getTime(pol.entry.cachedAt) > CACHE_STALE_REFRESH_HOURS * MsPerHour
    /\ pol.serverServes
    /\ ~pol.hookServes

-----------------------------------------------------------------------------
(* Claims about the hook's hourly check and its background refresh (Spec) *)

\* the callback of checkRefreshInterval runs in this step
IntervalFires == tier = "client" /\ timer.mountedAt >= 0 /\ timer'.firedAt # timer.firedAt
\* invocation l of loadTracks begins in this step and awaits the API
LoadStartsFetch(l) == load[l].pc = "idle" /\ load'[l].pc = "fetching"

\* C17: whenever the hourly check runs while an entry is stored that is due
\* (cached before today's cutover, now at or after it), loadTracks is invoked and
\* awaits a fetch, whether or not the entry is still valid.
C17_DueEntryIsRefreshedAtTheTick ==
    [][(/\ IntervalFires
        /\ localStorage # Null
        /\ IsDueSpec(getTime(localStorage.cachedAt), now))
          => \E l \in Loads : LoadStartsFetch(l)]_vars

\* C20: when loadTracks begins with a valid entry older than 12 hours, the hook
\* shows the cached tracks, not a loading state, while it awaits the API, and
\* keeps them if the fetch fails.
C20_ShowsCacheDuringBackgroundRefresh ==
    [][\A l \in Loads :
          /\ (/\ LoadStartsFetch(l)
              /\ load'[l].cached # Null
              /\ now - getTime(load'[l].cached.cachedAt) > CACHE_STALE_REFRESH_HOURS * MsPerHour)
                => /\ hook'.allTracksData = load'[l].cached.data
                   /\ ~hook'.isLoading
          /\ (LoadFetchFails(l) /\ load[l].cached # Null)
                => hook'.allTracksData = load[l].cached.data]_vars

-----------------------------------------------------------------------------
(* Claims about loadFromCache and the status endpoint (SpecStore) *)

\* the payload cannot be deserialized, or lacks its timestamp or its list
Malformed(payload) ==
    /\ payload # Null
    /\ \/ payload.kind = "string" /\ payload.parsed.kind # "object"
       \/ payload.kind = "object"
            /\ \/ "cachedAt" \notin DOMAIN payload
               \/ payload.cachedAt = Empty
               \/ ("tracks" \notin DOMAIN payload /\ "data" \notin DOMAIN payload)

\* what the store of the tier holds now
StoreHolds ==
    CASE tier = "redis" -> RedisGet(redis, now)
      [] tier = "localStorage" -> localStorage
      [] tier = "file" -> cacheFile

\* C18: loadFromCache of a malformed or undeserializable payload returns absent
\* and removes the payload from the store, so that no later load meets it.
C18_MalformedPayloadIsDropped ==
    (tier \in StoreTiers /\ Malformed(probe.payload) /\ Len(probe.results) >= 1) =>
        /\ \A k \in 1..Len(probe.results) : probe.results[k] = Null
        /\ StoreHolds = Null

\* the entry the status endpoint reports on
StatusEntry == file_loadFromCache(cacheFile)

\* C19: a status request answers 200 with the status of the stored entry, changes
\* neither the store nor the requests in progress, and the cachedAt, isValid and
\* refreshNeeded it reports are the entry's timestamp, isValid and isDue of the
\* policy for it.
C19_StatusIsPureAndAgreesWithPolicy ==
    [][(sent' # sent /\ sent'.log = "cache-status") =>
          /\ sent'.status = 200
          /\ cacheFile' = cacheFile
          /\ redis' = redis
          /\ req' = req
          /\ everFetched' = everFetched
          /\ sent'.body.hasCache = (StatusEntry # Null)
          /\ (StatusEntry # Null /\ ~Malformed(StatusEntry)) =>
                /\ sent'.body.cachedAt = StatusEntry.cachedAt
                /\ sent'.body.isValid = IsValidSpec(getTime(StatusEntry.cachedAt), now)
                /\ sent'.body.refreshNeeded = IsDueSpec(getTime(StatusEntry.cachedAt), now)]_vars

-----------------------------------------------------------------------------
(* Claims about the batch calls of one fetch (SpecFetch) *)

\* C21: the batch calls of one fetch follow one another, and between every two
\* successive calls the inter-batch delay of 100 ms elapses, whether the earlier
\* of the two was answered or threw.
C21_DelayBetweenSuccessiveBatchCalls ==
    tier = "fetch" =>
        \A k \in 1..(Len(fetch.calls) - 1) :
            fetch.calls[k + 1].at - fetch.calls[k].at >= BatchDelayMs

\* the identifiers extracted from the kept rows, in scrape order
ExtractedIds == SelectSeq([i \in 1..Len(KeptRows) |-> KeptRows[i].id], HasTrackId)

\* C22: when the fetch returns, the batch calls carried the extracted identifiers
\* in scrape order, cut into consecutive batches of 50: the k-th call carried the
\* identifiers 50(k-1)+1 .. 50k (the last call up to the last identifier), and
\* there were ceil(n/50) calls for n identifiers, none for n = 0.
C22_IdsSentInConsecutiveBatches ==
    (tier = "fetch" /\ fetch.pc = "returned") =>
        LET n == Len(ExtractedIds)
        IN  /\ Len(fetch.calls) = (n + BatchSize - 1) \div BatchSize
            /\ \A k \in 1..Len(fetch.calls) :
                  /\ Len(fetch.calls[k].ids) <= BatchSize
                  /\ fetch.calls[k].ids =
                        SubSeq(ExtractedIds, BatchSize * (k - 1) + 1, Min(BatchSize * k, n))

\* C22 witness: 100 kept rows, 67 of them with an identifier, were sent in two
\* calls of 50 and 17 identifiers
C22_Witness ==
    /\ tier = "fetch"
    /\ fetch.pc = "returned"
    /\ Len(KeptRows) = MaxRows
    /\ Len(ExtractedIds) = 67
    /\ Len(fetch.calls) = 2
    /\ Len(fetch.calls[1].ids) = BatchSize
    /\ Len(fetch.calls[2].ids) = 17

\* C23: when the fetch returns, the item of a row carries the artists and images
\* of the enrichment data exactly when an answered call returned data for the
\* row's identifier; every other item (identifier missing from an answered call's
\* response, call that threw, row without identifier) carries exactly one
\* contributor, the scraped name with an empty link, and no image; an answer that
\* lacks identifiers never fails the fetch.
C23_EnrichedIffDataElseFallback ==
    /\ (tier = "fetch" /\ fetch.pc = "thrown") => fetch.calls = <<>>
    /\ (tier = "fetch" /\ fetch.pc = "returned") =>
          \A i \in 1..Len(KeptRows) :
              LET row == KeptRows[i]
                  item == fetch.result[i]
              IN  IF row.id # 0 /\ Answered(row.id)
                  THEN /\ item.artists = SpotifyArtists(SpotifyTrack(row.id))
                       /\ item.images = SpotifyImages(SpotifyTrack(row.id))
                  ELSE /\ Len(item.artists) = 1
                       /\ item.artists[1] = [name |-> row.artist, url |-> Empty]
                       /\ item.images = <<>>

\* C23 witness: an answered call left out the identifier of row 2 and returned
\* data for row 1, and row 3 had no identifier: item 1 is enriched, items 2 and
\* 3 fall back
C23_Witness ==
    /\ tier = "fetch"
    /\ fetch.pc = "returned"
    /\ Len(fetch.result) >= 3
    /\ fetch.page[2].id = 2
    /\ fetch.page[3].id = 0
    /\ ~fetch.calls[1].threw
    /\ fetch.kinds[1] = "odd"
    /\ fetch.result[1].artists = SpotifyArtists(SpotifyTrack(1))
    /\ fetch.result[2].artists = <<[name |-> fetch.page[2].artist, url |-> Empty]>>
    /\ fetch.result[3].images = <<>>

-----------------------------------------------------------------------------
(* Claims about concurrent server reads and about the expiry of the key (Spec) *)

\* C24: whatever the interleaving of the server reads, a response with status 200
\* carries one whole list: the list the request's own fetch returned, or the
\* whole list of the entry the store holds at the instant the request reads it;
\* and an entry written to the store holds one whole fetched list, the one the
\* writing request answers with.
C24_ResponsesAndEntriesAreWholeLists ==
    [][tier = "server" =>
          /\ AnswersFromCache =>
                (sent'.body = StoredEntry.tracks /\ sent'.body \in ServerLists)
          /\ \A r \in Requests :
                (Answers(r) /\ sent'.status = 200) =>
                    /\ sent'.body \in ServerLists
                    /\ req[r].pc = "catch" => sent'.body = StoredEntry.tracks
          /\ redis' # redis =>
                /\ redis'.val # Null
                /\ redis'.val.tracks \in ServerLists
                /\ redis'.val.tracks = sent'.body
                /\ \E r \in Requests : req[r].pc = "fetching" /\ Answers(r)]_vars

\* C24 witness: while a request is still fetching, another request's fetch has
\* replaced a two-item list in the store, and a read got the whole new list
C24_Witness ==
    /\ tier = "server"
    /\ \E r \in Requests : req[r].pc = "fetching" /\ req[r].afterStored
    /\ sent.log = "cache"
    /\ StoredEntry # Null
    /\ Len(StoredEntry.tracks) = 2
    /\ sent.body = StoredEntry.tracks

\* the entry written last, and the instant saveToCache stamped on it
LastWritten == redis.val
WrittenAt == getTime(LastWritten.cachedAt)

\* C25: loadFromCache returns the entry saveToCache wrote last exactly as long as
\* less than 48 hours have passed since the write, whatever isCacheValid and
\* shouldRefreshCache say about the entry.
C25_EntryExpiresAfter48Hours ==
    (tier = "server" /\ LastWritten # Null) =>
        IF now - WrittenAt < 48 * MsPerHour
        THEN loadFromCache(RedisGet(redis, now)) = LastWritten
        ELSE loadFromCache(RedisGet(redis, now)) = Null

\* C25 witness: exactly 48 hours after the write a read whose fetch failed found
\* no entry to fall back to and answered 500
C25_Witness ==
    /\ tier = "server"
    /\ LastWritten # Null
    /\ now - WrittenAt = 48 * MsPerHour
    /\ sent.status = 500
    /\ loadFromCache(RedisGet(redis, now)) = Null

-----------------------------------------------------------------------------
(* Claims about server reads around the cutover (Spec) *)

\* the cutover instants of the days observed: 23:00 UTC of each day
CutoverInstants == {d * MsPerDay + CutoverHour * MsPerHour : d \in 0..MaxDay}

\* some cutover instant lies strictly between the two instants
CutoverBetween(t, n) == \E c \in CutoverInstants : t < c /\ c < n

\* C26: a server read does not answer from the cache when a cutover instant lies
\* strictly between the stored entry's cachedAt and now; such a read starts a
\* fetch.
C26_NoCacheAnswerAcrossACutover ==
    [][(/\ tier = "server"
        /\ StoredEntry # Null
        /\ CutoverBetween(getTime(StoredEntry.cachedAt), now))
          => /\ ~AnswersFromCache
             /\ \A r \in Requests :
                   (req[r].pc = "idle" /\ req'[r] # req[r]) => StartsFetch(r)]_vars

\* C26 witness: a read is fetching although the store holds an entry that is
\* still valid, because a cutover has passed since the entry was cached
C26_Witness ==
    /\ tier = "server"
    /\ StoredEntry # Null
    /\ CutoverBetween(getTime(StoredEntry.cachedAt), now)
    /\ isCacheValid(StoredEntry, now)
    /\ \E r \in Requests : req[r].pc = "fetching" /\ req[r].afterStored

\* C27: once a read has fetched and stored its list at instant w, no read at an
\* instant from w up to, but not including, the next cutover instant after w
\* starts a fetch: each is answered from the cache. This includes w = 23:00:00.000
\* UTC exactly, whose next cutover is the one of the following day.
C27_NoFetchUntilTheNextCutover ==
    [][(/\ tier = "server"
        /\ StoredEntry # Null
        /\ getTime(StoredEntry.cachedAt) <= now
        /\ now < NextCutoverSpec(getTime(StoredEntry.cachedAt)))
          => \A r \in Requests : ~StartsFetch(r)]_vars

-----------------------------------------------------------------------------
(* SpecStamp: one server read at a time, with the instant its fetch started *)
(* kept beside the entry the fetch leaves in the store                     *)

\* no fetch running, nothing stored: `startedAt` is the instant the running
\* fetch was called at, `scrapedAt` the one of the fetch whose list the store holds
NoStamp == [pc |-> "off", startedAt |-> -1, scrapedAt |-> -1]

\* the list a fetch returns
StampLists == {fetchSongsData(KworbPage(v, 2, "all"), <<"all">>) : v \in 1..MaxChart}

\* the request passes authenticateToken; await loadFromCache(); the cache is
\* served or fetchSongsData() is called
TopSongsLoadAt ==
    /\ tier = "stamp"
    /\ fetch.pc = "off"
    /\ LET cacheData == loadFromCache(RedisGet(redis, now))
       IN  IF ServeFromCache(cacheData, now)
           THEN /\ sent' = RespondCache(cacheData)
                /\ fetch' = fetch
           ELSE /\ sent' = sent
                /\ fetch' = [fetch EXCEPT !.pc = "running", !.startedAt = now]
    /\ UNCHANGED <<tier, now, redis, req, everFetched, everStored, clientVars, pol, storeVars>>

\* fetchSongsData() returns; saveToCache stamps new Date() and stores; res.json(tracks)
FetchStoredAt ==
    /\ tier = "stamp"
    /\ fetch.pc = "running"
    /\ \E tracks \in StampLists :
          /\ redis' = RedisSet(CacheData(toISOString(now), tracks), now)
          /\ sent' = RespondFresh(tracks)
    /\ fetch' = [pc |-> "off", startedAt |-> -1, scrapedAt |-> fetch.startedAt]
    /\ everFetched' = TRUE
    /\ everStored' = TRUE
    /\ UNCHANGED <<tier, now, req, clientVars, pol, storeVars>>

\* fetchSongsData() throws; the catch block answers with the stale list or 500
FetchThrowsAt ==
    /\ tier = "stamp"
    /\ fetch.pc = "running"
    /\ sent' = TopSongsCatch(loadFromCache(RedisGet(redis, now)))
    /\ fetch' = [fetch EXCEPT !.pc = "off", !.startedAt = -1]
    /\ UNCHANGED <<tier, now, redis, req, everFetched, everStored, clientVars, pol, storeVars>>

\* time passes, also while the fetch is awaited
StampTick ==
    /\ tier = "stamp"
    /\ now < LastInstant
    /\ now' = NextInstant("server", now)
    /\ UNCHANGED <<tier, serverVars, clientVars, fetch, pol, storeVars>>

InitStamp ==
    /\ tier = "stamp"
    /\ now = FirstInstant("server")
    /\ ServerInitVars
    /\ ClientInitVars
    /\ localStorage = Null
    /\ fetch = NoStamp
    /\ pol = NoPol
    /\ cacheFile = NoFile
    /\ probe = NoProbe

NextStamp ==
    \/ TopSongsLoadAt
    \/ FetchStoredAt
    \/ FetchThrowsAt
    \/ StampTick

SpecStamp == InitStamp /\ [][NextStamp]_vars

\* the most recent cutover instant at or before n
LastCutoverSpec(n) ==
    IF n >= CutoverInstant(n) THEN CutoverInstant(n) ELSE CutoverInstant(n) - MsPerDay

\* C28: whenever a read is answered from the cache at instant now, the fetch that
\* produced the stored list was called after the most recent cutover instant at
\* or before now.
C28_FreshEntryWasScrapedAfterTheCutover ==
    [][(tier = "stamp" /\ sent' # sent /\ sent'.log = "cache")
          => fetch.scrapedAt > LastCutoverSpec(now)]_vars

-----------------------------------------------------------------------------
(* Claims about the completion of loadTracks in the hook (Spec) *)

\* C29: when the page shows tracks and the fetch of a loadTracks call made by
\* checkRefreshInterval fails while no other call is in flight, the step that
\* completes the call leaves the displayed lists as they were, these are the data
\* of the entry the call read, and error stays null.
C29_FailedScheduledRefreshKeepsTheDisplay ==
    [][\A l \in Loads :
          (/\ LoadFetchFails(l)
           /\ load[l].by = "interval"
           /\ \A m \in Loads \ {l} : load[m].pc = "idle"
           /\ hook.allTracksData # <<>>) =>
              /\ hook'.allTracksData = load[l].cached.data
              /\ hook'.allTracksData = hook.allTracksData
              /\ hook'.topTracks = hook.topTracks
              /\ hook'.allTracks = hook.allTracks
              /\ hook'.error = NoError]_vars

-----------------------------------------------------------------------------
(* SpecLoad: the hook alone, where every request to the API settles *)

\* the promise of fetchTopTracksFromApi() of invocation l settles
ApiSettles(l) == ApiReturns(l) \/ ApiReturnsUnsaved(l) \/ ApiThrows(l)

InitLoad ==
    /\ InitClient
    /\ fetch = NoFetch
    /\ pol = NoPol
    /\ cacheFile = NoFile
    /\ probe = NoProbe

NextLoad == ClientNext \/ Tick

SpecLoad == InitLoad /\ [][NextLoad]_vars /\ \A l \in Loads : WF_vars(ApiSettles(l))

\* invocation l of loadTracks ends in this step: after its fetch, or at once on
\* the cache-hit path
LoadCompletes(l) ==
    \/ load[l].pc = "fetching" /\ load'[l].pc = "idle"
    \/ timer.mountedAt < 0 /\ timer'.mountedAt >= 0 /\ load'[l].last = "cache"

\* the lists on display are those of one list of tracks, and no error is set
DataShown(h) ==
    /\ h.error = NoError
    /\ h.topTracks = tracksToHeroTracks(h.allTracksData)
    /\ h.allTracks = SliceFrom3(h.allTracksData)

\* an error is set and nothing is on display
ErrorShown(h) ==
    /\ h.error # NoError
    /\ h.topTracks = <<>>
    /\ h.allTracks = <<>>
    /\ h.allTracksData = <<>>

\* C30: every invocation of loadTracks whose API request settles ends, and the
\* step that ends it, on the cache-hit, fetch-success, fallback and error path
\* alike, leaves isLoading false and exactly one of: data displayed without
\* error, error set with all lists empty.
C30_LoadTracksEndsNotLoading ==
    /\ [][\A l \in Loads :
             LoadCompletes(l) =>
                 /\ ~hook'.isLoading
                 /\ DataShown(hook') # ErrorShown(hook')]_vars
    /\ \A l \in Loads :
          (load[l].pc = "fetching") ~> (load[l].pc = "idle" /\ ~hook.isLoading)

\* C30 witness: an invocation has ended on the fallback path: its fetch failed,
\* the tracks of the entry it had read are displayed, no error, not loading
C30_Witness ==
    /\ tier = "client"
    /\ \E l \in Loads : load[l].last = "failed"
    /\ hook.error = NoError
    /\ hook.allTracksData # <<>>
    /\ hook.topTracks = tracksToHeroTracks(hook.allTracksData)
    /\ ~hook.isLoading

====
